---- MODULE Spec2Model ----
(***************************************************************************)
(* Model of the multi-block editor controller (MultiBlockEditor), its      *)
(* focus hook (useFocusNewItem) and the host (App) of LauGaHo/Reditor.     *)
(*                                                                         *)
(* Block records live in a heap and are addressed by reference, arrays of  *)
(* blocks are immutable values with an identity of their own, so that      *)
(* "same record object" and "same array" can be told from "equal value".   *)
(* One UI event is processed at a time: handler, then React's render and   *)
(* commit, then the passive effects in hook order.                         *)
(***************************************************************************)
EXTENDS Integers, Sequences, FiniteSets, TLC

\* ---------------------------------------------------------------- bounds
MaxGen == 2          \* how many ids generateBlockId can hand out
MaxArrays == 4       \* how many block arrays may be allocated
MaxFocus == 2        \* how many focus() calls an owner other than the editor may cause
MaxBatch == 2        \* how many focusNewItem calls an owner may make before a render

\* ------------------------------------------------------------- constants
NoItem == 0                      \* the empty string "" of useState<string>("")
NoDeps == -1                     \* an effect that has not run yet
HostArray == 0                   \* App's own initial [] of useState<BlockData[]>([])
GenIds == 11..(10 + MaxGen)      \* ids generateBlockId can return
AbsentIds == {9}                 \* an id no block ever has
Contents == {"", "x"}            \* text payloads
Types == {"paragraph", "h1"}     \* block types a view can ask for
Keys == {"Enter", "Backspace", "a"}   \* event.key values
NoDomEvent == [kind |-> "none", id |-> NoItem, key |-> "", text |-> "",
               calls |-> << >>, prevented |-> FALSE]

VARIABLES
    heap,           \* block records by object reference: [id, content, type]
    arrays,         \* block arrays by array reference: Seq(object reference)
    blocks,         \* useState<BlockData[]>: reference of the current array
    queue,          \* updaters passed to setBlocks and not yet processed
    newItemId,      \* useFocusNewItem: useState<string>("")
    pendingItem,    \* setNewItemId calls not yet processed
    blockRefs,      \* keys of blockRefs.current
    callbackCache,  \* callbackCache.current: block id -> identity of the ref callback
    views,          \* ids (React keys) of the Block views currently mounted
    props,          \* props each mounted Block view was last rendered with
    rerendered,     \* ids of the views whose component ran in the last commit
    focusDeps,      \* newItemId the focus effect last ran with
    publishDeps,    \* blocks reference the publish effect last ran with
    subscribed,     \* whether the host passed onBlocksChange
    hostBlocks,     \* App: allBlocks
    delivered,      \* array references handed to onBlocksChange, in order
    focusLog,       \* ids whose handle had focus() invoked, in order
    generated,      \* ids generateBlockId has returned
    pc,             \* "mount", "idle", "render", "focusEffect", "publishEffect"
    pre,            \* the last event and the state it was delivered in
    domEvent,       \* the last DOM event a view handled and the calls it made
    resolved        \* the last BlockFactory render: its blockType and its element type

vars == <<heap, arrays, blocks, queue, newItemId, pendingItem, blockRefs,
          callbackCache, views, props, rerendered, focusDeps, publishDeps,
          subscribed, hostBlocks, delivered, focusLog, generated, pc, pre,
          domEvent, resolved>>

\* ------------------------------------------------------------- helpers
ArrayAt(r) == IF r = HostArray THEN << >> ELSE arrays[r]

Items == ArrayAt(blocks)

IdsOf(h, items) == {h[items[i]].id : i \in 1..Len(items)}

\* Array.prototype.slice(from, to) on 0-based indices, to exclusive
slice(s, from, to) == SubSeq(s, from + 1, to)

\* Array.prototype.findIndex(block => block.id === blockId): 0-based, -1 if none
findIndex(h, items, blockId) ==
    IF \E i \in 1..Len(items) : h[items[i]].id = blockId
    THEN (CHOOSE i \in 1..Len(items) :
            /\ h[items[i]].id = blockId
            /\ \A j \in 1..(i - 1) : h[items[j]].id # blockId) - 1
    ELSE -1

\* Array.prototype.filter(block => block.id !== blockId)
RECURSIVE filterNot(_, _, _)
filterNot(h, items, blockId) ==
    IF items = << >> THEN << >>
    ELSE IF h[Head(items)].id # blockId
         THEN << Head(items) >> \o filterNot(h, Tail(items), blockId)
         ELSE filterNot(h, Tail(items), blockId)

\* generateBlockId(): `block_${Date.now()}_${Math.random()...}`. The timestamp
\* and the random suffix are taken to make the id differ from every id
\* returned before; ids are only ever compared for equality, so the call is
\* modelled as returning the least id of the pool not returned yet
generateBlockId(used) == CHOOSE id \in GenIds \ used : \A other \in GenIds \ used : id <= other

\* Variant: the id is taken from a clock that does not advance between two
\* calls, every block created gets the same id
createBlockSameId(id, content) ==
    [id |-> CHOOSE g \in GenIds : \A other \in GenIds : g <= other,
     content |-> content, type |-> "paragraph"]

\* createBlock(content = '', type = 'paragraph') with the id generateBlockId returned
createBlock(id, content) == [id |-> id, content |-> content, type |-> "paragraph"]

\* ------------------------------------------------- setBlocks updaters
\* Each updater maps the previous array (reference prev in arrs) to
\* [heap, arrays, ref]: the heap after its in-place writes, the arrays after
\* its allocation, and the reference of the array it returns.

\* Variant: returns prevBlocks itself when no record's content would change
handleContentChangeShortCircuit(h, arrs, prev, blockId, content) ==
    LET items == arrs[prev]
        held == {items[i] : i \in 1..Len(items)}
        h2 == [r \in DOMAIN h |->
                 IF r \in held /\ h[r].id = blockId
                 THEN [h[r] EXCEPT !.content = content]
                 ELSE h[r]]
    IN  IF h2 = h
        THEN [heap |-> h, arrays |-> arrs, ref |-> prev]
        ELSE [heap |-> h2, arrays |-> Append(arrs, items), ref |-> Len(arrs) + 1]

\* Variant: block.id === blockId ? { ...block, content } : block
RECURSIVE spreadCopy(_, _, _, _)
spreadCopy(h, items, blockId, content) ==
    IF items = << >> THEN [heap |-> h, items |-> << >>]
    ELSE IF h[Head(items)].id = blockId
         THEN LET rest == spreadCopy(Append(h, [h[Head(items)] EXCEPT !.content = content]),
                                     Tail(items), blockId, content)
              IN  [heap |-> rest.heap, items |-> << Len(h) + 1 >> \o rest.items]
         ELSE LET rest == spreadCopy(h, Tail(items), blockId, content)
              IN  [heap |-> rest.heap, items |-> << Head(items) >> \o rest.items]

handleContentChangeSpread(h, arrs, prev, blockId, content) ==
    LET r == spreadCopy(h, arrs[prev], blockId, content)
    IN  [heap |-> r.heap, arrays |-> Append(arrs, r.items), ref |-> Len(arrs) + 1]

\* Variant: the record is written and prevBlocks itself is returned
handleContentChangeInPlace(h, arrs, prev, blockId, content) ==
    LET items == arrs[prev]
        held == {items[i] : i \in 1..Len(items)}
    IN  [heap |-> [r \in DOMAIN h |->
                     IF r \in held /\ h[r].id = blockId
                     THEN [h[r] EXCEPT !.content = content]
                     ELSE h[r]],
         arrays |-> arrs,
         ref |-> prev]

\* prevBlocks.map(block => { if (block.id === blockId) block.content = content;
\*                           return block; })
handleContentChangeUpdater(h, arrs, prev, blockId, content) ==
    LET items == arrs[prev]
        held == {items[i] : i \in 1..Len(items)}
        newBlocks == [i \in 1..Len(items) |-> items[i]]
    IN  [heap |-> [r \in DOMAIN h |->
                     IF r \in held /\ h[r].id = blockId
                     THEN [h[r] EXCEPT !.content = content]
                     ELSE h[r]],
         arrays |-> Append(arrs, newBlocks),
         ref |-> Len(arrs) + 1]

\* Variant: the two slices are concatenated the wrong way round
handleEnterPressSwapped(h, arrs, prev, blockId, newBlock) ==
    LET items == arrs[prev]
        blockIndex == findIndex(h, items, blockId)
        newBlocks == slice(items, blockIndex + 1, Len(items))
                       \o << newBlock >>
                       \o slice(items, 0, blockIndex + 1)
    IN  [heap |-> h, arrays |-> Append(arrs, newBlocks), ref |-> Len(arrs) + 1]

\* Variant: the new block goes before the referenced block
handleEnterPressBefore(h, arrs, prev, blockId, newBlock) ==
    LET items == arrs[prev]
        blockIndex == findIndex(h, items, blockId)
        at == IF blockIndex < 0 THEN 0 ELSE blockIndex
        newBlocks == slice(items, 0, at) \o << newBlock >>
                       \o slice(items, at, Len(items))
    IN  [heap |-> h, arrays |-> Append(arrs, newBlocks), ref |-> Len(arrs) + 1]

\* Variant: the tail is taken from blockIndex, so the referenced block is
\* spread twice
handleEnterPressOverlap(h, arrs, prev, blockId, newBlock) ==
    LET items == arrs[prev]
        blockIndex == findIndex(h, items, blockId)
        newBlocks == slice(items, 0, blockIndex + 1) \o << newBlock >>
                       \o slice(items, IF blockIndex < 0 THEN 0 ELSE blockIndex,
                                Len(items))
    IN  [heap |-> h, arrays |-> Append(arrs, newBlocks), ref |-> Len(arrs) + 1]

\* [...prevBlocks.slice(0, blockIndex + 1), newBlock,
\*  ...prevBlocks.slice(blockIndex + 1)]
handleEnterPressUpdater(h, arrs, prev, blockId, newBlock) ==
    LET items == arrs[prev]
        blockIndex == findIndex(h, items, blockId)
        newBlocks == slice(items, 0, blockIndex + 1) \o << newBlock >>
                       \o slice(items, blockIndex + 1, Len(items))
    IN  [heap |-> h, arrays |-> Append(arrs, newBlocks), ref |-> Len(arrs) + 1]

\* Variant: no floor, the last block can be filtered out
handleDeleteBlockNoFloor(h, arrs, prev, blockId) ==
    [heap |-> h,
     arrays |-> Append(arrs, filterNot(h, arrs[prev], blockId)),
     ref |-> Len(arrs) + 1]

\* Variant: the floor test is prevBlocks.length < 1
handleDeleteBlockWeakFloor(h, arrs, prev, blockId) ==
    LET items == arrs[prev]
    IN  IF Len(items) < 1
        THEN [heap |-> h, arrays |-> arrs, ref |-> prev]
        ELSE [heap |-> h,
              arrays |-> Append(arrs, filterNot(h, items, blockId)),
              ref |-> Len(arrs) + 1]

\* Variant: the filter predicate is block.id === blockId
RECURSIVE filterOnly(_, _, _)
filterOnly(h, items, blockId) ==
    IF items = << >> THEN << >>
    ELSE IF h[Head(items)].id = blockId
         THEN << Head(items) >> \o filterOnly(h, Tail(items), blockId)
         ELSE filterOnly(h, Tail(items), blockId)

handleDeleteBlockKeepTarget(h, arrs, prev, blockId) ==
    LET items == arrs[prev]
    IN  IF Len(items) <= 1
        THEN [heap |-> h, arrays |-> arrs, ref |-> prev]
        ELSE [heap |-> h,
              arrays |-> Append(arrs, filterOnly(h, items, blockId)),
              ref |-> Len(arrs) + 1]

\* Variant: the block at the index of the first match is spliced out, and
\* findIndex's -1 takes the last block with it
handleDeleteBlockSplice(h, arrs, prev, blockId) ==
    LET items == arrs[prev]
        blockIndex == findIndex(h, items, blockId)
        at == IF blockIndex < 0 THEN Len(items) - 1 ELSE blockIndex
    IN  IF Len(items) <= 1
        THEN [heap |-> h, arrays |-> arrs, ref |-> prev]
        ELSE [heap |-> h,
              arrays |-> Append(arrs, slice(items, 0, at)
                                        \o slice(items, at + 1, Len(items))),
              ref |-> Len(arrs) + 1]

\* if (prevBlocks.length <= 1) return prevBlocks;
\* return prevBlocks.filter(block => block.id !== blockId)
handleDeleteBlockUpdater(h, arrs, prev, blockId) ==
    LET items == arrs[prev]
    IN  IF Len(items) <= 1
        THEN [heap |-> h, arrays |-> arrs, ref |-> prev]
        ELSE [heap |-> h,
              arrays |-> Append(arrs, filterNot(h, items, blockId)),
              ref |-> Len(arrs) + 1]

\* Variant: the block is rebuilt for its new type, { ...createBlock('', newType),
\* id: block.id }, and its text is lost
handleTypeChangeRebuild(h, arrs, prev, blockId, newType) ==
    LET items == arrs[prev]
        held == {items[i] : i \in 1..Len(items)}
    IN  [heap |-> [r \in DOMAIN h |->
                     IF r \in held /\ h[r].id = blockId
                     THEN [id |-> blockId, content |-> "", type |-> newType]
                     ELSE h[r]],
         arrays |-> Append(arrs, [i \in 1..Len(items) |-> items[i]]),
         ref |-> Len(arrs) + 1]

\* changeType(blockId, newType): the type field of the block is written in
\* place, by the rule of handleContentChange, in a new array
handleTypeChangeUpdater(h, arrs, prev, blockId, newType) ==
    LET items == arrs[prev]
        held == {items[i] : i \in 1..Len(items)}
        newBlocks == [i \in 1..Len(items) |-> items[i]]
    IN  [heap |-> [r \in DOMAIN h |->
                     IF r \in held /\ h[r].id = blockId
                     THEN [h[r] EXCEPT !.type = newType]
                     ELSE h[r]],
         arrays |-> Append(arrs, newBlocks),
         ref |-> Len(arrs) + 1]

\* React calls the queued updaters in the order they were enqueued, each on
\* the result of the one before
ApplyUpdater(u, st) ==
    CASE u.op = "content" ->
            handleContentChangeUpdater(st.heap, st.arrays, st.ref, u.blockId, u.content)
      [] u.op = "enter" ->
            handleEnterPressUpdater(st.heap, st.arrays, st.ref, u.blockId, u.newBlock)
      [] u.op = "delete" ->
            handleDeleteBlockUpdater(st.heap, st.arrays, st.ref, u.blockId)
      [] u.op = "type" ->
            handleTypeChangeUpdater(st.heap, st.arrays, st.ref, u.blockId, u.newType)

RECURSIVE ProcessQueue(_, _)
ProcessQueue(q, st) ==
    IF q = << >> THEN st ELSE ProcessQueue(Tail(q), ApplyUpdater(Head(q), st))

\* The event just delivered and the state it was delivered in
Snapshot(op, blockId, content, newId) ==
    [op |-> op, blockId |-> blockId, content |-> content, newId |-> newId,
     blocks |-> blocks, items |-> Items, heap |-> heap, props |-> props,
     nDelivered |-> Len(delivered), nFocus |-> Len(focusLog)]

\* ------------------------------------------------------------ initial state
\* initialBlocks: a host-supplied non-empty list with distinct ids, or the
\* default [createBlock("Hello World!")]
InitialBlocks ==
    {<< [id |-> 1, content |-> "x", type |-> "paragraph"] >>,
     << [id |-> 1, content |-> "", type |-> "paragraph"],
        [id |-> 2, content |-> "x", type |-> "paragraph"] >>}
    \cup {<< createBlock(generateBlockId({}), "x") >>}

Init ==
    \E init \in InitialBlocks, sub \in BOOLEAN :
        /\ heap = init
        /\ arrays = << [i \in 1..Len(init) |-> i] >>
        /\ blocks = 1
        /\ queue = << >>
        /\ newItemId = NoItem
        /\ pendingItem = << >>
        /\ blockRefs = {}
        /\ callbackCache = << >>
        /\ views = {}
        /\ props = << >>
        /\ rerendered = {}
        /\ focusDeps = NoDeps
        /\ publishDeps = NoDeps
        /\ subscribed = sub
        /\ hostBlocks = HostArray
        /\ delivered = << >>
        /\ focusLog = << >>
        /\ generated = {init[i].id : i \in 1..Len(init)} \cap GenIds
        /\ pc = "mount"
        /\ domEvent = NoDomEvent
        /\ resolved = [blockType |-> "", component |-> ""]
        /\ pre = [op |-> "none", blockId |-> NoItem, content |-> "", newId |-> NoItem,
                  blocks |-> 1, items |-> [i \in 1..Len(init) |-> i], heap |-> init,
                  props |-> << >>, nDelivered |-> 0, nFocus |-> 0]

\* ------------------------------------------------------------ event handlers
\* handleContentChange(blockId, content): setBlocks(updater)
handleContentChange(blockId, content) ==
    /\ pc = "idle"
    /\ Len(arrays) < MaxArrays
    /\ queue' = Append(queue, [op |-> "content", blockId |-> blockId,
                               content |-> content, newBlock |-> 0])
    /\ pre' = Snapshot("content", blockId, content, NoItem)
    /\ pc' = "render"
    /\ UNCHANGED <<heap, arrays, blocks, newItemId, pendingItem, blockRefs,
                   callbackCache, views, props, rerendered, focusDeps,
                   publishDeps, subscribed, hostBlocks, delivered, focusLog,
                   generated>>

\* Variant: focusNewBlock(blockId), the id of the block Enter was pressed in
handleEnterPressArmsTarget(blockId) ==
    /\ pc = "idle"
    /\ Len(arrays) < MaxArrays
    /\ generated # GenIds
    /\ LET id == generateBlockId(generated)
           newBlock == Len(heap) + 1
       IN  /\ generated' = generated \cup {id}
           /\ heap' = Append(heap, createBlock(id, ""))
           /\ queue' = Append(queue, [op |-> "enter", blockId |-> blockId,
                                      content |-> "", newBlock |-> newBlock])
           /\ pendingItem' = Append(pendingItem, blockId)
           /\ pre' = Snapshot("enter", blockId, "", id)
    /\ pc' = "render"
    /\ UNCHANGED <<arrays, blocks, newItemId, blockRefs, callbackCache, views,
                   props, rerendered, focusDeps, publishDeps, subscribed,
                   hostBlocks, delivered, focusLog>>

\* Variant: the handler itself focuses the new block right after setBlocks,
\* before any render has mounted its view
handleEnterPressFocusNow(blockId) ==
    /\ pc = "idle"
    /\ Len(arrays) < MaxArrays
    /\ generated # GenIds
    /\ LET id == generateBlockId(generated)
           newBlock == Len(heap) + 1
       IN  /\ generated' = generated \cup {id}
           /\ heap' = Append(heap, createBlock(id, ""))
           /\ queue' = Append(queue, [op |-> "enter", blockId |-> blockId,
                                      content |-> "", newBlock |-> newBlock])
           /\ focusLog' = Append(focusLog, id)
           /\ pre' = Snapshot("enter", blockId, "", id)
    /\ pc' = "render"
    /\ UNCHANGED <<arrays, blocks, newItemId, pendingItem, blockRefs,
                   callbackCache, views, props, rerendered, focusDeps,
                   publishDeps, subscribed, hostBlocks, delivered>>

\* handleEnterPress(blockId): createBlock(); setBlocks(updater);
\* focusNewBlock(newBlock.id), which is setNewItemId(itemId)
handleEnterPress(blockId) ==
    /\ pc = "idle"
    /\ Len(arrays) < MaxArrays
    /\ generated # GenIds
    /\ LET id == generateBlockId(generated)
           newBlock == Len(heap) + 1
       IN  /\ generated' = generated \cup {id}
           /\ heap' = Append(heap, createBlock(id, ""))
           /\ queue' = Append(queue, [op |-> "enter", blockId |-> blockId,
                                      content |-> "", newBlock |-> newBlock])
           /\ pendingItem' = Append(pendingItem, id)
           /\ pre' = Snapshot("enter", blockId, "", id)
    /\ pc' = "render"
    /\ UNCHANGED <<arrays, blocks, newItemId, blockRefs, callbackCache, views,
                   props, rerendered, focusDeps, publishDeps, subscribed,
                   hostBlocks, delivered, focusLog>>

\* Variant: after asking for the removal the handler moves the focus to a
\* remaining block, focusNewBlock(id of the first other block)
handleDeleteBlockArmsNeighbour(blockId) ==
    /\ pc = "idle"
    /\ Len(arrays) < MaxArrays
    /\ queue' = Append(queue, [op |-> "delete", blockId |-> blockId,
                               content |-> "", newBlock |-> 0])
    /\ pendingItem' =
          IF IdsOf(heap, Items) \ {blockId} # {}
          THEN Append(pendingItem, CHOOSE id \in IdsOf(heap, Items) \ {blockId} : TRUE)
          ELSE pendingItem
    /\ pre' = Snapshot("delete", blockId, "", NoItem)
    /\ pc' = "render"
    /\ UNCHANGED <<heap, arrays, blocks, newItemId, blockRefs,
                   callbackCache, views, props, rerendered, focusDeps,
                   publishDeps, subscribed, hostBlocks, delivered, focusLog,
                   generated>>

\* handleDeleteBlock(blockId): setBlocks(updater)
handleDeleteBlock(blockId) ==
    /\ pc = "idle"
    /\ Len(arrays) < MaxArrays
    /\ queue' = Append(queue, [op |-> "delete", blockId |-> blockId,
                               content |-> "", newBlock |-> 0])
    /\ pre' = Snapshot("delete", blockId, "", NoItem)
    /\ pc' = "render"
    /\ UNCHANGED <<heap, arrays, blocks, newItemId, pendingItem, blockRefs,
                   callbackCache, views, props, rerendered, focusDeps,
                   publishDeps, subscribed, hostBlocks, delivered, focusLog,
                   generated>>

\* onTypeChange(blockId, newType): setBlocks(updater)
handleTypeChange(blockId, newType) ==
    /\ pc = "idle"
    /\ Len(arrays) < MaxArrays
    /\ queue' = Append(queue, [op |-> "type", blockId |-> blockId, content |-> "",
                               newBlock |-> 0, newType |-> newType])
    /\ pre' = Snapshot("type", blockId, newType, NoItem)
    /\ pc' = "render"
    /\ UNCHANGED <<heap, arrays, blocks, newItemId, pendingItem, blockRefs,
                   callbackCache, views, props, rerendered, focusDeps,
                   publishDeps, subscribed, hostBlocks, delivered, focusLog,
                   generated>>

\* ------------------------------------------------------- render and commit
\* Variant: setBlocks(f(blocks)) with the blocks captured by the useCallback([])
\* closure of the first render, instead of the functional updater's prevBlocks
RenderedStale ==
    [st |-> ProcessQueue(queue, [heap |-> heap, arrays |-> arrays,
                                 ref |-> IF queue = << >> THEN blocks ELSE 1]),
     item |-> IF pendingItem = << >> THEN newItemId
              ELSE pendingItem[Len(pendingItem)]]

\* Variant: setNewItemId(prev => prev || itemId), a pending target is kept
\* and the later request is dropped
RenderedFirstPending ==
    [st |-> ProcessQueue(queue, [heap |-> heap, arrays |-> arrays, ref |-> blocks]),
     item |-> IF pendingItem = << >> THEN newItemId
              ELSE pendingItem[1]]

\* The state the pending updates give: the updaters folded over blocks, and
\* the last value passed to setNewItemId
Rendered ==
    [st |-> ProcessQueue(queue, [heap |-> heap, arrays |-> arrays, ref |-> blocks]),
     item |-> IF pendingItem = << >> THEN newItemId
              ELSE pendingItem[Len(pendingItem)]]

\* A ref callback is identified by its block id and by how many functions
\* were created for that id before it; the cache maps the id to that count

\* Variant: ref={(element) => {...}} inline, a new function on every render
getRefCallbackInline(cache, blockId) ==
    IF blockId \in DOMAIN cache THEN cache[blockId] + 1 ELSE 1

\* getRefCallback(blockId): the function returned, the cached one if the
\* cache has one for blockId and else a new one, which the cache then holds
getRefCallback(cache, blockId) ==
    IF blockId \in DOMAIN cache THEN cache[blockId] ELSE 1

\* blocks.map((block, index) => <Block ref={getRefCallback(block.id)} ... />):
\* the cache after the calls of one render pass
renderRefs(cache, h, items) ==
    [id \in DOMAIN cache \cup IdsOf(h, items) |->
        IF id \in IdsOf(h, items) THEN getRefCallback(cache, id) ELSE cache[id]]

\* The props of the Block element rendered for the block at 1-based index i
BlockProps(cache, h, items, i) ==
    [block |-> items[i],
     placeholder |-> IF i - 1 = 0 THEN "start" ELSE "continue",
     onContentChange |-> "handleContentChange",
     onEnterPress |-> "handleEnterPress",
     onDeleteBlock |-> "handleDeleteBlock",
     ref |-> cache[h[items[i]].id]]

\* The elements of one render pass, by key
RenderedProps(cache, h, items) ==
    [id \in IdsOf(h, items) |->
        BlockProps(cache, h, items,
                   CHOOSE i \in 1..Len(items) : h[items[i]].id = id)]

\* Variant: the ref callback ignores null, a removed view's handle stays in
\* the map
CommitNoDetach(r) ==
    LET items == r.st.arrays[r.st.ref]
        newIds == IdsOf(r.st.heap, items)
        cache == renderRefs(callbackCache, r.st.heap, items)
        newProps == RenderedProps(cache, r.st.heap, items)
    IN  /\ heap' = r.st.heap
        /\ arrays' = r.st.arrays
        /\ blocks' = r.st.ref
        /\ newItemId' = r.item
        /\ queue' = << >>
        /\ pendingItem' = << >>
        /\ callbackCache' = cache
        /\ props' = newProps
        /\ rerendered' = {id \in newIds : id \notin views \/ newProps[id] # props[id]}
        /\ blockRefs' = blockRefs \cup (newIds \ views)
        /\ views' = newIds
        /\ pc' = "focusEffect"
        /\ UNCHANGED <<focusDeps, publishDeps, subscribed, hostBlocks, delivered,
                       focusLog, generated, pre, domEvent,
                   resolved>>

\* Variant: the updater itself calls onBlocksChange(newBlocks), so the host's
\* setAllBlocks runs while the controller is rendering
CommitPublishing(r) ==
    LET items == r.st.arrays[r.st.ref]
        newIds == IdsOf(r.st.heap, items)
        cache == renderRefs(callbackCache, r.st.heap, items)
        newProps == RenderedProps(cache, r.st.heap, items)
    IN  /\ heap' = r.st.heap
        /\ arrays' = r.st.arrays
        /\ blocks' = r.st.ref
        /\ newItemId' = r.item
        /\ queue' = << >>
        /\ pendingItem' = << >>
        /\ callbackCache' = cache
        /\ props' = newProps
        /\ rerendered' = {id \in newIds : id \notin views \/ newProps[id] # props[id]}
        /\ blockRefs' = (blockRefs \ (views \ newIds)) \cup (newIds \ views)
        /\ views' = newIds
        /\ pc' = "focusEffect"
        /\ IF subscribed /\ queue # << >>
           THEN /\ delivered' = Append(delivered, r.st.ref)
                /\ hostBlocks' = r.st.ref
           ELSE UNCHANGED <<delivered, hostBlocks>>
        /\ UNCHANGED <<focusDeps, publishDeps, subscribed, focusLog, generated, pre, domEvent,
                   resolved>>

\* Render of MultiBlockEditorComponent with the new state (getRefCallback is
\* called for every block) and commit: a memoized view runs again only if it
\* is new or a prop or its ref changed; refs of removed views are detached
\* with null, refs of new views are attached with their handle
Commit(r) ==
    LET items == r.st.arrays[r.st.ref]
        newIds == IdsOf(r.st.heap, items)
        cache == renderRefs(callbackCache, r.st.heap, items)
        newProps == RenderedProps(cache, r.st.heap, items)
    IN  /\ heap' = r.st.heap
        /\ arrays' = r.st.arrays
        /\ blocks' = r.st.ref
        /\ newItemId' = r.item
        /\ queue' = << >>
        /\ pendingItem' = << >>
        /\ callbackCache' = cache
        /\ props' = newProps
        /\ rerendered' = {id \in newIds : id \notin views \/ newProps[id] # props[id]}
        /\ blockRefs' = (blockRefs \ (views \ newIds)) \cup (newIds \ views)
        /\ views' = newIds
        /\ pc' = "focusEffect"
        /\ UNCHANGED <<focusDeps, publishDeps, subscribed, hostBlocks, delivered,
                       focusLog, generated, pre, domEvent,
                   resolved>>

\* First render of the component
Mount ==
    /\ pc = "mount"
    /\ \E r \in {Rendered} : Commit(r)

\* Re-render after a state update; React bails out, committing nothing and
\* running no effect, when every state is Object.is-equal to what it was
Render ==
    /\ pc = "render"
    /\ \E r \in {Rendered} :
           IF r.st.ref = blocks /\ r.item = newItemId
           THEN /\ heap' = r.st.heap
                /\ queue' = << >>
                /\ pendingItem' = << >>
                /\ pc' = "idle"
                /\ UNCHANGED <<arrays, blocks, newItemId, blockRefs, callbackCache,
                               views, props, rerendered, focusDeps, publishDeps,
                               subscribed, hostBlocks, delivered, focusLog,
                               generated, pre, domEvent,
                   resolved>>
           ELSE Commit(r)

\* ------------------------------------------------------------------ effects
\* Variant: useEffect without a dependency list and without setNewItemId(""),
\* the effect runs after every commit
FocusEffectEveryRender ==
    /\ pc = "focusEffect"
    /\ focusDeps' = newItemId
    /\ IF newItemId # NoItem /\ newItemId \in blockRefs
       THEN focusLog' = Append(focusLog, newItemId)
       ELSE UNCHANGED focusLog
    /\ pc' = "publishEffect"
    /\ UNCHANGED <<heap, arrays, blocks, queue, newItemId, pendingItem, blockRefs,
                   callbackCache, views, props, rerendered, publishDeps,
                   subscribed, hostBlocks, delivered, generated, pre, domEvent,
                   resolved>>

\* useFocusNewItem: useEffect(..., [newItemId, refsMap])
FocusEffect ==
    /\ pc = "focusEffect"
    /\ IF newItemId # focusDeps
       THEN /\ focusDeps' = newItemId
            /\ IF newItemId # NoItem /\ newItemId \in blockRefs
               THEN /\ focusLog' = Append(focusLog, newItemId)
                    /\ pendingItem' = Append(pendingItem, NoItem)
               ELSE UNCHANGED <<focusLog, pendingItem>>
       ELSE UNCHANGED <<focusDeps, focusLog, pendingItem>>
    /\ pc' = "publishEffect"
    /\ UNCHANGED <<heap, arrays, blocks, queue, newItemId, blockRefs,
                   callbackCache, views, props, rerendered, publishDeps,
                   subscribed, hostBlocks, delivered, generated, pre, domEvent,
                   resolved>>

\* App.handleBlocksChange(blocks): setAllBlocks(blocks)
handleBlocksChange(ref) ==
    /\ delivered' = Append(delivered, ref)
    /\ hostBlocks' = ref

\* Variant: a first-render guard, the effect publishes from the second run on
PublishEffectSkipMount ==
    /\ pc = "publishEffect"
    /\ IF blocks # publishDeps
       THEN /\ publishDeps' = blocks
            /\ IF subscribed /\ publishDeps # NoDeps
               THEN handleBlocksChange(blocks)
               ELSE UNCHANGED <<delivered, hostBlocks>>
       ELSE UNCHANGED <<publishDeps, delivered, hostBlocks>>
    /\ pc' = IF pendingItem # << >> THEN "render" ELSE "idle"
    /\ UNCHANGED <<heap, arrays, blocks, queue, newItemId, pendingItem,
                   blockRefs, callbackCache, views, props, rerendered,
                   focusDeps, subscribed, focusLog, generated, pre, domEvent,
                   resolved>>

\* Variant: the dependency list is [], the effect runs after the first render only
PublishEffectMountOnly ==
    /\ pc = "publishEffect"
    /\ IF publishDeps = NoDeps
       THEN /\ publishDeps' = blocks
            /\ IF subscribed
               THEN handleBlocksChange(blocks)
               ELSE UNCHANGED <<delivered, hostBlocks>>
       ELSE UNCHANGED <<publishDeps, delivered, hostBlocks>>
    /\ pc' = IF pendingItem # << >> THEN "render" ELSE "idle"
    /\ UNCHANGED <<heap, arrays, blocks, queue, newItemId, pendingItem,
                   blockRefs, callbackCache, views, props, rerendered,
                   focusDeps, subscribed, focusLog, generated, pre, domEvent,
                   resolved>>

\* useEffect(() => { if (onBlocksChange) onBlocksChange(blocks) },
\*           [blocks, onBlocksChange])
PublishEffect ==
    /\ pc = "publishEffect"
    /\ IF blocks # publishDeps
       THEN /\ publishDeps' = blocks
            /\ IF subscribed
               THEN handleBlocksChange(blocks)
               ELSE UNCHANGED <<delivered, hostBlocks>>
       ELSE UNCHANGED <<publishDeps, delivered, hostBlocks>>
    /\ pc' = IF pendingItem # << >> THEN "render" ELSE "idle"
    /\ UNCHANGED <<heap, arrays, blocks, queue, newItemId, pendingItem,
                   blockRefs, callbackCache, views, props, rerendered,
                   focusDeps, subscribed, focusLog, generated, pre, domEvent,
                   resolved>>

\* ------------------------------------------------------------ specification
\* A view reports events with its own block's id: the ids of the blocks that
\* are or were in the collection (an event can arrive after its block was
\* removed), and an id no block has
EventIds == {heap[r].id : r \in DOMAIN heap} \cup AbsentIds

ContentChanged ==
    \E id \in EventIds, c \in Contents :
        handleContentChange(id, c) /\ UNCHANGED <<domEvent, resolved>>

EnterPressed == \E id \in EventIds : handleEnterPress(id) /\ UNCHANGED <<domEvent, resolved>>

DeleteRequested == \E id \in EventIds : handleDeleteBlock(id) /\ UNCHANGED <<domEvent, resolved>>

Next ==
    \/ Mount
    \/ ContentChanged
    \/ EnterPressed
    \/ DeleteRequested
    \/ Render
    \/ FocusEffect
    \/ PublishEffect

Spec == Init /\ [][Next]_vars

\* React runs the render it scheduled for a state update, and the passive
\* effects of every commit
FairSpec ==
    /\ Spec
    /\ WF_vars(Mount)
    /\ WF_vars(Render)
    /\ WF_vars(FocusEffect)
    /\ WF_vars(PublishEffect)

\* The controller with the type change of a block wired to its views
TypeChanged ==
    \E id \in EventIds, t \in Types :
        handleTypeChange(id, t) /\ UNCHANGED <<domEvent, resolved>>

TypeNext ==
    \/ Next
    \/ TypeChanged

TypeSpec == Init /\ [][TypeNext]_vars

\* useFocusNewItem under any owner: its focusNewItem can be called with any
\* id, and the owner's commits attach and detach refs in the map as it likes
\* A call while an earlier call of the same batch is not rendered yet leaves
\* pre with the id first asked for (blockId) and the id last asked for (newId)
focusNewItem(itemId) ==
    /\ pc \in {"idle", "render"}
    /\ Len(focusLog) < MaxFocus
    /\ Len(pendingItem) < MaxBatch
    /\ pendingItem' = Append(pendingItem, itemId)
    /\ pre' = IF /\ pc = "render"
                 /\ pre.op = "focus"
                 /\ pendingItem # << >>
                 /\ pendingItem[Len(pendingItem)] # NoItem
              THEN [pre EXCEPT !.newId = itemId]
              ELSE Snapshot("focus", itemId, "", itemId)
    /\ pc' = "render"
    /\ UNCHANGED <<heap, arrays, blocks, queue, newItemId, blockRefs,
                   callbackCache, views, props, rerendered, focusDeps,
                   publishDeps, subscribed, hostBlocks, delivered, focusLog,
                   generated>>

\* A commit of the owner that leaves refs registered in the map; the passive
\* effects of the hook are evaluated after it
OwnerCommit(refs) ==
    /\ pc = "idle"
    /\ blockRefs' = refs
    /\ pc' = "focusEffect"
    /\ UNCHANGED <<heap, arrays, blocks, queue, newItemId, pendingItem,
                   callbackCache, views, props, rerendered, focusDeps,
                   publishDeps, subscribed, hostBlocks, delivered, focusLog,
                   generated, pre, domEvent,
                   resolved>>

FocusRequested == \E id \in EventIds : focusNewItem(id) /\ UNCHANGED <<domEvent, resolved>>

OwnerCommitted == \E refs \in SUBSET EventIds : OwnerCommit(refs)

CoordNext ==
    \/ Mount
    \/ FocusRequested
    \/ OwnerCommitted
    \/ Render
    \/ FocusEffect
    \/ PublishEffect

CoordSpec == Init /\ [][CoordNext]_vars

\* ---------------------------------------------------------------- views
\* The editor driven by the DOM events of its mounted block views
Undefined == "undefined"         \* an optional callback prop that was not passed

\* Every variable but domEvent
editorVars == <<heap, arrays, blocks, queue, newItemId, pendingItem, blockRefs,
                callbackCache, views, props, rerendered, focusDeps, publishDeps,
                subscribed, hostBlocks, delivered, focusLog, generated, pc, pre>>

\* event.currentTarget.textContent || "" of the view of block id: the text
\* the region was rendered with or the last input left in it
textContent(id) ==
    heap[Items[CHOOSE i \in 1..Len(Items) : heap[Items[i]].id = id]].content

\* Variant: Backspace asks for the removal whatever the region holds
handleKeyDownAnyText(p, blockId, key, text) ==
    IF key = "Enter"
    THEN [prevented |-> TRUE,
          calls |-> IF p.onEnterPress # Undefined
                    THEN <<[fn |-> "onEnterPress", id |-> blockId, content |-> ""]>>
                    ELSE << >>]
    ELSE IF key = "Backspace" /\ p.onDeleteBlock # Undefined
         THEN [prevented |-> TRUE,
               calls |-> <<[fn |-> "onDeleteBlock", id |-> blockId, content |-> ""]>>]
         ELSE [prevented |-> FALSE, calls |-> << >>]

\* handleKeyDown(event) of ParagraphBlock and HeadingBlock: whether the default
\* was prevented and the callbacks called
handleKeyDown(p, blockId, key, text) ==
    IF key = "Enter"
    THEN [prevented |-> TRUE,
          calls |-> IF p.onEnterPress # Undefined
                    THEN <<[fn |-> "onEnterPress", id |-> blockId, content |-> ""]>>
                    ELSE << >>]
    ELSE IF key = "Backspace"
         THEN IF text = "" /\ p.onDeleteBlock # Undefined
              THEN [prevented |-> TRUE,
                    calls |-> <<[fn |-> "onDeleteBlock", id |-> blockId, content |-> ""]>>]
              ELSE [prevented |-> FALSE, calls |-> << >>]
         ELSE [prevented |-> FALSE, calls |-> << >>]

\* handleInput(event) of ParagraphBlock and HeadingBlock: the callbacks called
handleInput(p, blockId, text) ==
    IF p.onContentChange # Undefined
    THEN <<[fn |-> "onContentChange", id |-> blockId, content |-> text]>>
    ELSE << >>

\* The controller's handler behind the callback prop a view called
Invoke(call) ==
    CASE call.fn = "onEnterPress" -> handleEnterPress(call.id)
      [] call.fn = "onDeleteBlock" -> handleDeleteBlock(call.id)
      [] call.fn = "onContentChange" -> handleContentChange(call.id, call.content)

\* onKeyDown of the mounted view with React key id
KeyDown(id, key) ==
    /\ pc = "idle"
    /\ id \in views
    /\ \E r \in {handleKeyDown(props[id], heap[props[id].block].id, key, textContent(id))} :
          /\ UNCHANGED resolved
          /\ domEvent' = [kind |-> "keydown", id |-> id, key |-> key,
                          text |-> textContent(id), calls |-> r.calls,
                          prevented |-> r.prevented]
          /\ IF r.calls = << >>
             THEN UNCHANGED editorVars
             ELSE Invoke(r.calls[1])

\* onInput of the mounted view with React key id, the region now holding text
Input(id, text) ==
    /\ pc = "idle"
    /\ id \in views
    /\ \E calls \in {handleInput(props[id], heap[props[id].block].id, text)} :
          /\ UNCHANGED resolved
          /\ domEvent' = [kind |-> "input", id |-> id, key |-> "", text |-> text,
                          calls |-> calls, prevented |-> FALSE]
          /\ IF calls = << >>
             THEN UNCHANGED editorVars
             ELSE Invoke(calls[1])

KeyPressed == \E id \in views, key \in Keys : KeyDown(id, key)

TextInput == \E id \in views, text \in Contents : Input(id, text)

ViewNext ==
    \/ Mount
    \/ KeyPressed
    \/ TextInput
    \/ Render
    \/ FocusEffect
    \/ PublishEffect

ViewSpec == Init /\ [][ViewNext]_vars

\* -------------------------------------------------------------- factory
\* blockRegistry: Record<BlockType, BlockRegistryItem>
blockRegistry ==
    [t \in {"paragraph", "h1", "h2", "h3"} |->
        [component |-> CASE t = "paragraph" -> "ParagraphBlock"
                         [] t = "h1" -> "H1Block"
                         [] t = "h2" -> "H2Block"
                         [] t = "h3" -> "H3Block",
         defaultContent |-> ""]]

\* Some of the properties every object literal inherits from Object.prototype
ObjectPrototypeKeys == {"constructor", "toString"}

\* Values of blockType a BlockFactory can be rendered with: the registered
\* types, a type of no entry, and names that Object.prototype defines
BlockTypeInputs == DOMAIN blockRegistry \cup {"quote"} \cup ObjectPrototypeKeys

\* obj[key]: an own property, else one inherited from Object.prototype (a
\* function, which has no component property), else undefined
Get(obj, key) ==
    IF key \in DOMAIN obj THEN obj[key]
    ELSE IF key \in ObjectPrototypeKeys THEN [inherited |-> key]
    ELSE [undefined |-> TRUE]

\* Whether a value counts as true for ||
Truthy(v) == "undefined" \notin DOMAIN v

\* BlockFactoryComponent: registryItem.component for
\* registryItem = blockRegistry[blockType] || blockRegistry.paragraph
BlockFactory(blockType) ==
    LET registryItem == IF Truthy(Get(blockRegistry, blockType))
                        THEN Get(blockRegistry, blockType)
                        ELSE blockRegistry.paragraph
    IN  IF "component" \in DOMAIN registryItem
        THEN registryItem.component
        ELSE Undefined

\* A BlockFactory element is rendered for a block of type blockType
FactoryRender(blockType) ==
    /\ pc = "idle"
    /\ resolved' = [blockType |-> blockType, component |-> BlockFactory(blockType)]
    /\ UNCHANGED <<editorVars, domEvent>>

FactoryRendered == \E blockType \in BlockTypeInputs : FactoryRender(blockType)

FactoryNext ==
    \/ Mount
    \/ ContentChanged
    \/ FactoryRendered
    \/ Render
    \/ FocusEffect
    \/ PublishEffect

FactorySpec == Init /\ [][FactoryNext]_vars

TypeOK ==
    /\ pc \in {"mount", "idle", "render", "focusEffect", "publishEffect"}
    /\ blocks \in 1..Len(arrays)
    /\ \A a \in 1..Len(arrays) : \A i \in 1..Len(arrays[a]) : arrays[a][i] \in 1..Len(heap)
    /\ hostBlocks \in 0..Len(arrays)
    /\ Len(queue) <= 1

\* ------------------------------------------------------------------ claims
\* The collection the last event was delivered to, and what it asked for
PreIds == IdsOf(pre.heap, pre.items)

PrePresent == pre.blockId \in PreIds

\* 1-based position of the block with id blockId in pre.items
PreIndex == findIndex(pre.heap, pre.items, pre.blockId) + 1

PreContent == pre.heap[pre.items[PreIndex]].content

Settled == pc = "idle"

RecordsUntouched == \A r \in DOMAIN pre.heap : heap[r] = pre.heap[r]

PublishedOnce ==
    /\ Len(delivered) = pre.nDelivered + 1
    /\ delivered[Len(delivered)] = blocks
    /\ hostBlocks = blocks

NothingPublished == Len(delivered) = pre.nDelivered

SameContentEvent ==
    /\ pre.op = "content"
    /\ PrePresent
    /\ PreContent = pre.content

InsertEvent == pre.op = "enter"

NewBlockAt(i) == heap[Items[i]].id = pre.newId

\* C2: insertAfter(X) with X the id of no block puts the new block at the end
\* of the collection.
C2_AbsentInsertsAtEnd ==
    (Settled /\ InsertEvent /\ ~PrePresent) => NewBlockAt(Len(Items))

\* C3: insertAfter(X) with X in a collection of length N gives length N+1, the
\* new block right after X, and a new id that no block of the collection had.
C3_InsertAfterPresent ==
    (Settled /\ InsertEvent /\ PrePresent) =>
        /\ Len(Items) = Len(pre.items) + 1
        /\ Items[PreIndex] = pre.items[PreIndex]
        /\ heap[Items[PreIndex]].id = pre.blockId
        /\ NewBlockAt(PreIndex + 1)
        /\ pre.newId \notin PreIds

C3_Witness ==
    /\ Settled /\ InsertEvent /\ PrePresent
    /\ Len(pre.items) = 2 /\ PreIndex = 1

\* C4: the collection holds at least one block in every state.
C4_NeverEmpty == Len(Items) >= 1

C4_Witness ==
    /\ Settled /\ pre.op = "delete" /\ PrePresent
    /\ Len(pre.items) = 1 /\ Len(delivered) >= 2

\* C5: remove(X) on a one-block collection, for every X, keeps the block, the
\* records and the collection reference, and publishes nothing.
C5_SingletonRemoveIsNoOp ==
    (pre.op = "delete" /\ Len(pre.items) = 1) =>
        /\ blocks = pre.blocks
        /\ Items = pre.items
        /\ RecordsUntouched
        /\ NothingPublished

C5_Witness ==
    /\ Settled /\ pre.op = "delete" /\ Len(pre.items) = 1
    /\ PrePresent /\ subscribed

RemoveEvent == pre.op = "delete"

\* C6: remove(X) of a block X of a collection of length N > 1 gives length
\* N-1: the previous blocks in their order without the block with id X, and
\* no other block dropped.
C6_RemoveDropsExactlyTarget ==
    (Settled /\ RemoveEvent /\ PrePresent /\ Len(pre.items) > 1) =>
        /\ Len(Items) = Len(pre.items) - 1
        /\ Items = SubSeq(pre.items, 1, PreIndex - 1)
                     \o SubSeq(pre.items, PreIndex + 1, Len(pre.items))
        /\ pre.blockId \notin IdsOf(heap, Items)
        /\ RecordsUntouched

C6_Witness ==
    /\ Settled /\ RemoveEvent /\ PrePresent
    /\ Len(pre.items) = 3 /\ PreIndex = 2

\* C7: no two blocks of the collection have the same id, in every state.
C7_IdsUnique ==
    \A i, j \in 1..Len(Items) : heap[Items[i]].id = heap[Items[j]].id => i = j

C7_Witness ==
    /\ Settled /\ Len(Items) = 2
    /\ Cardinality(generated) = 2 /\ RemoveEvent /\ PrePresent

\* C8: a setContent(X, c) with c different from X's content changes the
\* content field of X's record and nothing else: X keeps id, type and record
\* object, every other record is the same object with the same fields, and
\* the collection keeps its length and order.
C8_ContentChangeFrame ==
    (Settled /\ pre.op = "content" /\ PrePresent /\ PreContent # pre.content) =>
        /\ Items = pre.items
        /\ \A r \in DOMAIN pre.heap :
              heap[r] = IF r = pre.items[PreIndex]
                        THEN [pre.heap[r] EXCEPT !.content = pre.content]
                        ELSE pre.heap[r]

C8_Witness ==
    /\ Settled /\ pre.op = "content" /\ PrePresent /\ PreContent # pre.content
    /\ Len(pre.items) = 2 /\ PreIndex = 2

AbsentTargetEvent == pre.op \in {"content", "delete"} /\ ~PrePresent

C10_PublishedAfterMutation ==
    /\ []((Settled /\ subscribed) =>
            /\ delivered # << >>
            /\ delivered[Len(delivered)] = blocks
            /\ hostBlocks = blocks
            /\ (blocks # pre.blocks => PublishedOnce))
    /\ [](~Settled => <>Settled)

C10_Witness ==
    /\ Settled /\ subscribed /\ InsertEvent
    /\ blocks # pre.blocks /\ Len(delivered) = 3

\* C11: onBlocksChange is never called inside a state update or a render pass:
\* every delivery to the host is a step of its own, taken by the publish effect
\* after the render that applied the mutation was committed and with no update
\* pending, and it hands over the committed array without touching the state
C11_PublishOnlyAfterCommit ==
    [][delivered' # delivered =>
          /\ pc = "publishEffect"
          /\ queue = << >>
          /\ blocks # publishDeps
          /\ delivered' = Append(delivered, blocks)
          /\ hostBlocks' = blocks
          /\ blocks' = blocks /\ arrays' = arrays /\ heap' = heap]_vars

C11_Witness ==
    /\ pc = "idle"
    /\ pre.op = "delete"
    /\ blocks # pre.blocks
    /\ Len(delivered) = pre.nDelivered + 1

\* The number of focus() calls made on the view of block id
FocusCalls(id) == Cardinality({i \in DOMAIN focusLog : focusLog[i] = id})

\* C12: once an insert has armed the coordinator for the new id Y and Y's view
\* is registered, focus() is called on it exactly once; events on other blocks,
\* their mounts and unmounts, and later renders never focus Y again
C12_FocusedExactlyOnce ==
    /\ \A id \in EventIds : FocusCalls(id) <= 1
    /\ (Settled /\ InsertEvent) =>
          /\ FocusCalls(pre.newId) = 1
          /\ Len(focusLog) = pre.nFocus + 1
    /\ (Settled /\ ~InsertEvent) => Len(focusLog) = pre.nFocus

C12_Witness ==
    /\ Settled
    /\ pre.op = "delete"
    /\ blocks # pre.blocks
    /\ \E id \in views : FocusCalls(id) = 1

\* C13: focus() is only ever called on a view that is mounted and registered in
\* blockRefs at the moment of the call: the call for a new block comes after
\* the commit that mounted its view, never from the handler or the render
C13_FocusOnlyRegistered ==
    [][focusLog' # focusLog =>
          /\ pc = "focusEffect"
          /\ newItemId \in blockRefs
          /\ newItemId \in views
          /\ newItemId \in IdsOf(heap, Items)
          /\ focusLog' = Append(focusLog, newItemId)]_vars

C13_Witness ==
    /\ pc = "publishEffect"
    /\ InsertEvent
    /\ Len(focusLog) = pre.nFocus + 1
    /\ focusLog[Len(focusLog)] = pre.newId
    /\ pre.newId \in blockRefs

\* The collection as a list of block values
ValueList(h, items) == [i \in 1..Len(items) |-> h[items[i]]]

\* What one event does to a list of block values
ApplyEvent(list, ev) ==
    CASE ev.op = "content" ->
           [i \in 1..Len(list) |->
               IF list[i].id = ev.blockId
               THEN [list[i] EXCEPT !.content = ev.content]
               ELSE list[i]]
      [] ev.op = "enter" ->
           LET at == {i \in 1..Len(list) : list[i].id = ev.blockId}
               k == IF at = {} THEN 0 ELSE CHOOSE i \in at : \A j \in at : i <= j
           IN  SubSeq(list, 1, k)
                 \o <<[id |-> ev.newId, type |-> "paragraph", content |-> ""]>>
                 \o SubSeq(list, k + 1, Len(list))
      [] ev.op = "delete" ->
           IF Len(list) <= 1 THEN list
           ELSE SelectSeq(list, LAMBDA b : b.id # ev.blockId)
      [] OTHER -> list

\* C14: with events delivered one at a time, the collection after an event is
\* the collection the previous event left with this one event applied to it,
\* once: by induction the collection after event N is events 1..N applied in
\* delivery order, none lost, doubled or applied to an older collection
C14_EventsAppliedInOrder ==
    Settled => ValueList(heap, Items) = ApplyEvent(ValueList(pre.heap, pre.items), pre)

C14_Witness ==
    /\ Settled
    /\ Len(arrays) >= 4
    /\ InsertEvent
    /\ PrePresent
    /\ pre.blocks # 1
    /\ ValueList(pre.heap, pre.items) # ValueList(pre.heap, arrays[1])

TypeEvent == pre.op = "type" /\ PrePresent

\* C15: a type change of a block X of the collection writes newType to X's
\* type field and nothing else: the collection holds the same records in the
\* same order, X's id and content are what they were, every other record is
\* untouched, and a subscribed host is handed the updated collection
C15_TypeChangeFrame ==
    (Settled /\ TypeEvent) =>
        /\ Items = pre.items
        /\ \A r \in DOMAIN pre.heap :
              heap[r] = IF /\ pre.heap[r].id = pre.blockId
                           /\ r \in {pre.items[i] : i \in 1..Len(pre.items)}
                        THEN [pre.heap[r] EXCEPT !.type = pre.content]
                        ELSE pre.heap[r]
        /\ heap[Items[PreIndex]].content = PreContent
        /\ heap[Items[PreIndex]].id = pre.blockId
        /\ heap[Items[PreIndex]].type = pre.content
        /\ subscribed => PublishedOnce

C15_Witness ==
    /\ Settled
    /\ TypeEvent
    /\ subscribed
    /\ Len(Items) >= 2
    /\ PreContent = "x"
    /\ pre.heap[pre.items[PreIndex]].type # pre.content
    /\ heap[Items[PreIndex]].type = pre.content

\* C16: after a content change of block X the element rendered for every other
\* block Y has the props and the ref of the previous render (the same record,
\* placeholder, callbacks and ref callback), so the memoized view of no block
\* other than X runs again
C16_OtherViewsKeepProps ==
    (Settled /\ pre.op = "content") =>
        \A y \in DOMAIN pre.props \ {pre.blockId} :
            /\ y \in DOMAIN props
            /\ props[y] = pre.props[y]
            /\ y \notin rerendered

C16_Witness ==
    /\ Settled
    /\ pre.op = "content"
    /\ PrePresent
    /\ PreContent # pre.content
    /\ heap[Items[PreIndex]].content = pre.content
    /\ Cardinality(DOMAIN pre.props) >= 2
    /\ blocks # pre.blocks

\* C17: an arm whose id has no registered view when the effect observes it is
\* dropped: that effect run calls nothing and completes normally, and focus()
\* is only ever called in the one effect run that first observes an arm, so
\* later renders and later mounts never focus a missed id
C17_MissedArmIsDropped ==
    [][/\ (pc = "focusEffect" /\ newItemId # focusDeps /\ newItemId \notin blockRefs) =>
            (focusLog' = focusLog /\ focusDeps' = newItemId /\ pc' = "publishEffect")
       /\ focusLog' # focusLog =>
            /\ pc = "focusEffect"
            /\ newItemId # focusDeps
            /\ newItemId \in blockRefs
            /\ focusLog' = Append(focusLog, newItemId)]_vars

C17_Witness ==
    /\ pc = "idle"
    /\ newItemId # NoItem
    /\ focusDeps = newItemId
    /\ newItemId \in blockRefs
    /\ FocusCalls(newItemId) = 0
    /\ focusLog # << >>

\* C18: every arm of the coordinator is followed by a return to idle, the
\* view found or not: once the render and the effects an arm caused are done,
\* no target is pending
C18_ArmReturnsToIdle == Settled => newItemId = NoItem

\* The positions of the collection that hold the block the insert created
NewBlockPositions == {i \in 1..Len(Items) : NewBlockAt(i)}

\* C19: an insert creates one block with empty content and type paragraph and
\* arms the coordinator with the id of that very block: while the update is
\* pending the armed id is the created record's id, and at rest the collection
\* holds that record once, its view is mounted and it got the one focus() call
C19_InsertCreatesAndFocuses ==
    /\ (pc = "render" /\ InsertEvent /\ queue # << >>) =>
          /\ pendingItem = <<pre.newId>>
          /\ heap[queue[1].newBlock] = [id |-> pre.newId, content |-> "", type |-> "paragraph"]
          /\ pre.newId \notin PreIds
    /\ (Settled /\ InsertEvent) =>
          /\ Cardinality(NewBlockPositions) = 1
          /\ Len(Items) = Len(pre.items) + 1
          /\ \A i \in NewBlockPositions :
                /\ heap[Items[i]].content = ""
                /\ heap[Items[i]].type = "paragraph"
                /\ Items[i] \notin DOMAIN pre.heap
          /\ pre.newId \in views
          /\ Len(focusLog) = pre.nFocus + 1
          /\ focusLog[Len(focusLog)] = pre.newId
          /\ newItemId = NoItem

C19_Witness ==
    /\ Settled
    /\ InsertEvent
    /\ Len(Items) >= 3
    /\ focusLog # << >>
    /\ focusLog[Len(focusLog)] = pre.newId
    /\ \E i \in 1..Len(Items) : NewBlockAt(i) /\ heap[Items[i]].content = ""

\* 1-based position in items of the block with this id
PositionOf(h, items, id) == CHOOSE i \in 1..Len(items) : h[items[i]].id = id

\* C20: content changes, inserts and removals keep the relative order of the
\* blocks: two blocks that are in the collection before and after the event
\* stand in the same order after it as before
C20_RelativeOrderKept ==
    (Settled /\ pre.op \in {"content", "enter", "delete"}) =>
        \A a, b \in PreIds \cap IdsOf(heap, Items) :
            (PositionOf(heap, Items, a) < PositionOf(heap, Items, b))
              <=> (PositionOf(pre.heap, pre.items, a) < PositionOf(pre.heap, pre.items, b))

C20_Witness ==
    /\ Settled
    /\ InsertEvent
    /\ PrePresent
    /\ Len(pre.items) >= 2
    /\ PreIndex < Len(pre.items)
    /\ Len(Items) = Len(pre.items) + 1

\* The ids of all block records ever created up to the last event's delivery,
\* those of removed blocks included
PreEverIds == {pre.heap[r].id : r \in DOMAIN pre.heap}

\* C21: no event changes the id of a block record, an insert adds to the ids
\* of the collection exactly one id that no record, removed ones included,
\* ever had, a removal takes away at most its target's id, and a content
\* change leaves the ids as they are
C21_IdsStableAndNeverReused ==
    Settled =>
        /\ \A r \in DOMAIN pre.heap : heap[r].id = pre.heap[r].id
        /\ pre.op = "content" => IdsOf(heap, Items) = PreIds
        /\ pre.op = "enter" =>
              \E id \in IdsOf(heap, Items) :
                  /\ IdsOf(heap, Items) = PreIds \cup {id}
                  /\ id \notin PreEverIds
        /\ pre.op = "delete" =>
              IdsOf(heap, Items) = IF Len(pre.items) <= 1 THEN PreIds
                                   ELSE PreIds \ {pre.blockId}

C21_Witness ==
    /\ Settled
    /\ InsertEvent
    /\ PreEverIds \ PreIds # {}
    /\ IdsOf(heap, Items) \cap (PreEverIds \ PreIds) = {}

\* C22: blockRefs changes only when a commit mounts or unmounts views, gaining
\* the ids of the views that mount and losing those of the views that
\* unmount, so from the first commit on its keys are the ids of the collection
C22_RefsFollowViews ==
    /\ [](pc # "mount" => blockRefs = IdsOf(heap, Items))
    /\ [][blockRefs' # blockRefs =>
             /\ pc \in {"mount", "render"}
             /\ pc' = "focusEffect"
             /\ blockRefs' \ blockRefs = views' \ views
             /\ blockRefs \ blockRefs' = views \ views']_vars

C22_Witness ==
    /\ Settled
    /\ pre.op = "delete"
    /\ PrePresent
    /\ pre.blockId \notin blockRefs
    /\ blockRefs = IdsOf(heap, Items)
    /\ Cardinality(blockRefs) >= 2

\* C23: in a view of the editor, Enter makes exactly the one call
\* onEnterPress(own id); Backspace calls onDeleteBlock(own id) if the region's
\* text is empty and calls nothing otherwise; no key calls onContentChange,
\* which only an input event calls, once, with the region's current text; and
\* the controller handles exactly the event the view emitted
C23_KeysToEvents ==
    /\ (domEvent.kind = "keydown" /\ domEvent.key = "Enter") =>
          /\ domEvent.calls = <<[fn |-> "onEnterPress", id |-> domEvent.id, content |-> ""]>>
          /\ domEvent.prevented
    /\ (domEvent.kind = "keydown" /\ domEvent.key = "Backspace") =>
          /\ domEvent.text = "" =>
                /\ domEvent.calls = <<[fn |-> "onDeleteBlock", id |-> domEvent.id, content |-> ""]>>
                /\ domEvent.prevented
          /\ domEvent.text # "" => (domEvent.calls = << >> /\ ~domEvent.prevented)
    /\ (domEvent.kind = "keydown" /\ domEvent.key \notin {"Enter", "Backspace"}) =>
          (domEvent.calls = << >> /\ ~domEvent.prevented)
    /\ domEvent.kind = "input" =>
          domEvent.calls = <<[fn |-> "onContentChange", id |-> domEvent.id,
                              content |-> domEvent.text]>>
    /\ (domEvent.kind # "none" /\ domEvent.calls # << >>) =>
          /\ pre.blockId = domEvent.id
          /\ pre.op = CASE domEvent.calls[1].fn = "onEnterPress" -> "enter"
                         [] domEvent.calls[1].fn = "onDeleteBlock" -> "delete"
                         [] domEvent.calls[1].fn = "onContentChange" -> "content"
          /\ pre.op = "content" => pre.content = domEvent.text

C23_Witness ==
    /\ Settled
    /\ domEvent.kind = "keydown"
    /\ domEvent.key = "Backspace"
    /\ domEvent.text = ""
    /\ pre.op = "delete"
    /\ pre.blockId = domEvent.id
    /\ blocks # pre.blocks
    /\ domEvent.id \notin views

\* C24: the factory resolves every block type to a view: a type with a
\* registry entry to that entry's component, any other type to the paragraph
\* view
C24_FactoryResolvesEveryType ==
    resolved.blockType # "" =>
        resolved.component =
            IF resolved.blockType \in DOMAIN blockRegistry
            THEN blockRegistry[resolved.blockType].component
            ELSE "ParagraphBlock"

C26_RefCallbackStable ==
    /\ [][\A id \in DOMAIN callbackCache :
             /\ id \in DOMAIN callbackCache'
             /\ callbackCache'[id] = callbackCache[id]
             /\ getRefCallback(callbackCache', id) = getRefCallback(callbackCache, id)]_vars
    /\ [](\A id \in views : id \in DOMAIN callbackCache /\ props[id].ref = callbackCache[id])

C26_Witness ==
    /\ Settled
    /\ Len(arrays) >= 4
    /\ DOMAIN callbackCache \ views # {}
    /\ \E id \in views \cap DOMAIN pre.props : props[id].ref = pre.props[id].ref
    /\ views \ DOMAIN pre.props # {}

\* What the list with array reference a reads as the content of block id
ReadsIn(a, id) == {heap[arrays[a][i]].content : i \in {j \in 1..Len(arrays[a]) : heap[arrays[a][j]].id = id}}

\* C27: the collections share their block records: after a content change of a
\* block X of the collection to c, every list handed to the host before that
\* holds X, and the initial list, reads c for X too
C27_RecordsShared ==
    (Settled /\ pre.op = "content" /\ PrePresent) =>
        \A a \in {delivered[i] : i \in 1..pre.nDelivered} \cup {1} :
            ReadsIn(a, pre.blockId) \subseteq {pre.content}

C27_Witness ==
    /\ Settled
    /\ pre.op = "content"
    /\ PrePresent
    /\ PreContent # pre.content
    /\ pre.nDelivered >= 2
    /\ ReadsIn(1, pre.blockId) = {pre.content}
    /\ \A i \in 1..pre.nDelivered : ReadsIn(delivered[i], pre.blockId) = {pre.content}

\* C28: with a subscriber, the editor hands the host its initial collection
\* when it mounts, before it handles any event: the first list delivered is
\* the initial array, holding the initial records in their order with their
\* contents as they were given
C28_InitialPublishedFirst ==
    subscribed =>
        /\ delivered # << >> => delivered[1] = 1
        /\ pc = "idle" => delivered # << >>
        /\ pre.op # "none" => pre.nDelivered >= 1
        /\ (pre.op = "none" /\ delivered # << >>) =>
              /\ delivered = <<1>>
              /\ hostBlocks = 1
              /\ arrays[1] = pre.items
              /\ heap = pre.heap

C28_Witness ==
    /\ subscribed
    /\ pc = "idle"
    /\ pre.op = "none"
    /\ delivered = <<1>>
    /\ Len(arrays[1]) = 2

\* C29: the controller calls focus() only because of an insert and only on the
\* view of the block that insert created: every call follows an insert event
\* and goes to its new id, which no block had before; content changes and
\* removals add no call; no block of the initial collection is ever focused
C29_FocusOnlyFromInsert ==
    /\ [][focusLog' # focusLog =>
             /\ InsertEvent
             /\ pre.newId \notin PreEverIds
             /\ focusLog' = Append(focusLog, pre.newId)
             /\ \E i \in 1..Len(Items) : NewBlockAt(i) /\ Items[i] \notin DOMAIN pre.heap]_vars
    /\ []((Settled /\ pre.op \in {"content", "delete"}) => Len(focusLog) = pre.nFocus)
    /\ [](\A i \in 1..Len(focusLog) : focusLog[i] \notin IdsOf(heap, arrays[1]))

C29_Witness ==
    /\ Settled
    /\ pre.op = "delete"
    /\ PrePresent
    /\ blocks # pre.blocks
    /\ focusLog # << >>
    /\ Len(focusLog) = pre.nFocus
    /\ focusLog[Len(focusLog)] \in views

\* Two requests of one batch for different ids: the first was still pending,
\* not rendered and not observed, when the second came
ReplacedRequest == pre.op = "focus" /\ pre.blockId # pre.newId

====
